---- MODULE Spec2Model ----
(***************************************************************************)
(* Model of the R&S SMB100A / SMBV100A microwave source driver             *)
(* (qudi/hardware/microwave/mw_source_smbv.py, class MicrowaveSmbv).       *)
(*                                                                         *)
(* Spec: every public operation runs under self._thread_lock, so one call  *)
(* is one atomic step.  A step records which call was made (call), how it  *)
(* ended (outcome) and everything it put on the instrument bus (bus).      *)
(*                                                                         *)
(* SpecThreads: several callers; a call is the steps request, acquire of   *)
(* self._thread_lock, the body, release.  The calls that start or stop the *)
(* output poll the instrument step by step, and the instrument switches    *)
(* its output some time after it was told to.                              *)
(*                                                                         *)
(* Units: frequencies are integers in kHz, powers integers in dBm.  All    *)
(* values of the model are whole numbers, on which the ':f' formatting of  *)
(* the commands (six decimals) loses nothing.                              *)
(***************************************************************************)
EXTENDS Integers, Sequences, FiniteSets

VARIABLES
    module_state,       \* self.module_state(): "deactivated", "idle" or "locked"
    _max_power,         \* ConfigOption max_power: None or <<dBm>>
    _constraints,       \* self._constraints: None or the MicrowaveConstraints
    _cw_power,          \* self._cw_power
    _cw_frequency,      \* self._cw_frequency
    _scan_power,        \* self._scan_power
    _scan_frequencies,  \* self._scan_frequencies: None or <<start, stop, points>>
    _device,            \* the instrument behind self._device
    call,               \* the last call: [op, arg]
    outcome,            \* how it ended: "return", "RuntimeError", "AssertionError"
    bus,                \* the writes and queries of the last call, in order
    offCwOff,           \* observer: progress of the call sequence off, cw_on, off
    _thread_lock,       \* self._thread_lock: 0 when free, else the caller holding it
    pc,                 \* where each caller is: "out", "waiting", "in", "polling", "done"
    settling,           \* output state the instrument was told to take and has
                        \* not taken yet: None or <<0>> or <<1>>
    responsive          \* whether the instrument ever takes the output state

cached == <<_cw_power, _cw_frequency, _scan_power, _scan_frequencies>>
vars == <<module_state, _max_power, _constraints, _cw_power, _cw_frequency,
          _scan_power, _scan_frequencies, _device, call, outcome, bus, offCwOff,
          _thread_lock, pc, settling, responsive>>
threads == <<_thread_lock, pc, settling, responsive>>

None == <<>>

(***************************************************************************)
(* Bounds of the model.                                                    *)
(***************************************************************************)
\* most polls of a status register that still report the old state
MaxPolls == 1
\* the setting resolution of the instrument, in kHz and in dBm
DevGrid == 2
\* callers of the public operations
NumThreads == 2

(***************************************************************************)
(* Program constants.                                                      *)
(***************************************************************************)
InitCwPower == -20
InitCwFrequency == 2000000
InitScanPower == -20
MinPower == -145
DefaultMaxPower == 30
MinFrequency == 9
MaxFrequencySMB100A == 3200000
MaxFrequencyOther == 6000000
MinScanSize == 2
MaxScanSize == 10001
ActivateCwFrequency == 2870000

\* qudi.core.enums, as far as the driver uses them
SamplingOutputMode == {"JUMP_LIST", "EQUIDISTANT_SWEEP"}
TriggerEdge == {"RISING", "FALLING"}

(***************************************************************************)
(* Inputs of the calls.                                                    *)
(***************************************************************************)
MaxPowerConfigs == {None, <<-30>>}
IdnModels == {"SMB100A", "SMBV100A"}
PowerInputs == {MinPower - 1, MinPower, -21, DefaultMaxPower + 1}
FrequencyInputs == {MinFrequency - 1, 1000000, 4000000, MaxFrequencyOther + 1}
\* (start, stop, points); the differences stop - start are multiples of
\* points - 1, so that the float division of _write_sweep is exact on them
ScanInputs == { <<1000000, 2000000, 5>>,
                <<1000000, 2000000, 1>>,
                <<1000000, 2000000, MaxScanSize>>,
                <<1000000, 2000000, 12501>>,
                <<MinFrequency - 1, 2000000, MaxScanSize>>,
                <<1000000, MaxFrequencyOther + 1, MaxScanSize>> }
ScanModeInputs == SamplingOutputMode \cup {"sweep"}
TriggerEdgeInputs == TriggerEdge \cup {"rising"}
PresetFrequencies == {1000000}
PresetPowers == {-30}

(***************************************************************************)
(* Numbers of the value tuple.  min() and max() compare the start and stop *)
(* frequencies with the point count as plain floats, so a number is kept   *)
(* exactly as <<kHz, Hz below the kHz>>.                                    *)
(***************************************************************************)
Frequency(f) == <<f, 0>>
Number(n) == <<n \div 1000, n % 1000>>
Less(a, b) == a[1] < b[1] \/ (a[1] = b[1] /\ a[2] < b[2])
Floats(value) == <<Frequency(value[1]), Frequency(value[2]), Number(value[3])>>
min(xs) == CHOOSE x \in {xs[i] : i \in DOMAIN xs} :
               \A y \in {xs[i] : i \in DOMAIN xs} : ~Less(y, x)
max(xs) == CHOOSE x \in {xs[i] : i \in DOMAIN xs} :
               \A y \in {xs[i] : i \in DOMAIN xs} : ~Less(x, y)
len(value) == Len(value)

(***************************************************************************)
(* MicrowaveConstraints (qudi.interface.microwave_interface).              *)
(***************************************************************************)
MicrowaveConstraints(power_limits, frequency_limits, scan_size_limits, scan_modes) ==
    [power_limits |-> power_limits, frequency_limits |-> frequency_limits,
     scan_size_limits |-> scan_size_limits, scan_modes |-> scan_modes]
power_in_range(value) ==
    _constraints.power_limits[1] <= value /\ value <= _constraints.power_limits[2]
frequency_in_range(x) ==
    /\ ~Less(x, Frequency(_constraints.frequency_limits[1]))
    /\ ~Less(Frequency(_constraints.frequency_limits[2]), x)
scan_size_in_range(n) ==
    _constraints.scan_size_limits[1] <= n /\ n <= _constraints.scan_size_limits[2]
mode_supported(mode) == mode \in _constraints.scan_modes

(***************************************************************************)
(* The bus: what a call writes to and queries from the instrument.         *)
(***************************************************************************)
Write(cmd) == [kind |-> "write", cmd |-> cmd, arg |-> <<>>, txt |-> ""]
WriteF(cmd, x) == [kind |-> "write", cmd |-> cmd, arg |-> <<x>>, txt |-> ""]
Query(cmd, x) == [kind |-> "query", cmd |-> cmd, arg |-> <<x>>, txt |-> ""]
QueryS(cmd, s) == [kind |-> "query", cmd |-> cmd, arg |-> <<>>, txt |-> s]

\* while <query> has not reached the wanted value: up to MaxPolls stale
\* answers, then the wanted one
Poll(cmd, stale, wanted) ==
    { [i \in 1..(k + 1) |-> IF i <= k THEN Query(cmd, stale) ELSE Query(cmd, wanted)] :
        k \in 0..MaxPolls }

\* _command_wait without the *OPC? poll
_command_wait_no_opc(command) == <<command, Write("*WAI")>>

\* _command_wait: the command, *WAI, then *OPC? until it answers 1.  *OPC?
\* answers only when the pending operations are complete, and *WAI has
\* already made the instrument wait for them: the first answer is 1.
_command_wait(command) == <<command, Write("*WAI"), Query("*OPC?", 1)>>

(***************************************************************************)
(* The instrument.                                                         *)
(***************************************************************************)
Preset(model, f, p) ==
    [model |-> model, preset |-> <<f, p>>,
     freq_mode |-> "CW", freq |-> f, pow |-> p, outp |-> 0,
     swe_mode |-> "AUTO", swe_spac |-> "LIN", swe_start |-> 0,
     swe_stop |-> 0, swe_step |-> 0, trig_src |-> "AUTO",
     trig_slope |-> "POS"]

\* the value the instrument takes for a written setting: the next multiple
\* of its resolution q (device-side rounding)
Quantize(x, q) == x + ((-x) % q)

DevWrite(d, e) ==
    IF e.kind # "write" THEN d
    ELSE IF e.cmd = ":FREQ:MODE CW" THEN [d EXCEPT !.freq_mode = "CW"]
    ELSE IF e.cmd = ":FREQ:MODE SWEEP" THEN [d EXCEPT !.freq_mode = "SWE"]
    ELSE IF e.cmd = ":FREQ" THEN [d EXCEPT !.freq = Quantize(e.arg[1], DevGrid)]
    ELSE IF e.cmd = ":POW" THEN [d EXCEPT !.pow = Quantize(e.arg[1], DevGrid)]
    ELSE IF e.cmd \in {":OUTP:STAT ON"} THEN [d EXCEPT !.outp = 1]
    ELSE IF e.cmd \in {"OUTP:STAT OFF"} THEN [d EXCEPT !.outp = 0]
    ELSE IF e.cmd = ":SWE:MODE STEP" THEN [d EXCEPT !.swe_mode = "STEP"]
    ELSE IF e.cmd = ":SWE:SPAC LIN" THEN [d EXCEPT !.swe_spac = "LIN"]
    ELSE IF e.cmd = ":FREQ:START" THEN [d EXCEPT !.swe_start = e.arg[1]]
    ELSE IF e.cmd = ":FREQ:STOP" THEN [d EXCEPT !.swe_stop = e.arg[1]]
    ELSE IF e.cmd = ":SWE:STEP:LIN" THEN [d EXCEPT !.swe_step = e.arg[1]]
    ELSE IF e.cmd = "TRIG:FSW:SOUR EXT" THEN [d EXCEPT !.trig_src = "EXT"]
    ELSE IF e.cmd = ":TRIG1:SLOP NEG" THEN [d EXCEPT !.trig_slope = "NEG"]
    ELSE IF e.cmd = ":TRIG1:SLOP POS" THEN [d EXCEPT !.trig_slope = "POS"]
    ELSE d

RECURSIVE Execute(_, _)
Execute(d, io) ==
    IF io = <<>> THEN d ELSE Execute(DevWrite(d, Head(io)), Tail(io))

\* _in_cw_mode(): the answer to :FREQ:MODE?, stripped and lowered, is 'cw'
_in_cw_mode(d) == d.freq_mode = "CW"
QueryMode(d) == QueryS(":FREQ:MODE?", d.freq_mode)

\* the attribute self._in_cw_mode taken without calling it: a bound method,
\* which is true in a condition
_in_cw_mode_attribute == TRUE

Writes(io) == SelectSeq(io, LAMBDA e : e.kind = "write")
Sent(io, cmd) == \E i \in DOMAIN io : io[i].kind = "write" /\ io[i].cmd = cmd

(***************************************************************************)
(* Observer of the call sequence off(); cw_on(); off().                    *)
(* stage 1: the last call was off; 2: the last two were off, cw_on;        *)
(* 3: the last three were off, cw_on, off.  start is the CW setpoint       *)
(* before the first off of the sequence, restart the one before its last.  *)
(***************************************************************************)
NoSequence == [stage |-> 0, start |-> <<0, 0>>, restart |-> <<0, 0>>]
Observe(op) ==
    LET cw == <<_cw_frequency, _cw_power>> IN
    offCwOff' =
        IF op = "off" THEN
            IF offCwOff.stage = 2
            THEN [stage |-> 3, start |-> offCwOff.start, restart |-> cw]
            ELSE [stage |-> 1, start |-> cw, restart |-> cw]
        ELSE IF op = "cw_on" /\ offCwOff.stage \in {1, 3}
            THEN [stage |-> 2, start |-> offCwOff.restart, restart |-> offCwOff.restart]
        ELSE NoSequence

(***************************************************************************)
(* How a call ends.                                                        *)
(***************************************************************************)
Called(op, arg) == call' = [op |-> op, arg |-> arg] /\ Observe(op)

\* an exception before the call changed anything; io is what it had put on
\* the bus by then
Raise(error, io) ==
    /\ outcome' = error
    /\ bus' = io
    /\ UNCHANGED <<module_state, _max_power, _constraints, cached, _device>>

\* return without having changed anything
Return(io) == Raise("return", io)

(***************************************************************************)
(* __init__ and on_activate / on_deactivate.                               *)
(***************************************************************************)
Threads == 1..NumThreads

\* the object after __init__
Constructed ==
    /\ module_state = "deactivated"
    /\ _max_power \in MaxPowerConfigs
    /\ _constraints = None
    /\ _cw_power = InitCwPower
    /\ _cw_frequency = InitCwFrequency
    /\ _scan_power = InitScanPower
    /\ _scan_frequencies = None
    /\ \E m \in IdnModels, f \in PresetFrequencies, p \in PresetPowers :
          _device = Preset(m, f, p)
    /\ call = [op |-> "__init__", arg |-> None]
    /\ outcome = "return"
    /\ bus = <<>>
    /\ offCwOff = NoSequence

\* nobody has called yet: the lock is free
NoCallers ==
    /\ _thread_lock = 0
    /\ pc = [t \in Threads |-> "out"]
    /\ settling = None

\* one call at a time
Sequential == UNCHANGED threads

Init == Constructed /\ NoCallers /\ responsive = TRUE

on_activate ==
    /\ module_state = "deactivated"
    /\ Called("on_activate", None)
    /\ bus' = <<QueryS("*IDN?", _device.model)>>
               \o _command_wait(Write("*CLS")) \o _command_wait(Write("*RST"))
    /\ _device' = Preset(_device.model, _device.preset[1], _device.preset[2])
    \* line 79 tests self.model; it is read here as the model string that
    \* line 73 takes from *IDN? into self._model
    /\ LET freq_limits == IF _device.model = "SMB100A"
                          THEN <<MinFrequency, MaxFrequencySMB100A>>
                          ELSE <<MinFrequency, MaxFrequencyOther>>
           max_power == IF _max_power = None THEN DefaultMaxPower
                        ELSE IF _max_power[1] > MinPower THEN _max_power[1]
                        ELSE MinPower
       IN _constraints' = MicrowaveConstraints(<<MinPower, max_power>>, freq_limits,
                                               <<MinScanSize, MaxScanSize>>,
                                               {"EQUIDISTANT_SWEEP"})
    /\ _scan_frequencies' = None
    /\ _scan_power' = MinPower
    /\ _cw_power' = MinPower
    /\ _cw_frequency' = ActivateCwFrequency
    /\ module_state' = "idle"
    /\ outcome' = "return"
    /\ UNCHANGED _max_power

on_deactivate ==
    /\ module_state # "deactivated"
    /\ Called("on_deactivate", None)
    /\ module_state' = "deactivated"
    /\ outcome' = "return"
    /\ bus' = <<>>
    /\ UNCHANGED <<_max_power, _constraints, cached, _device>>

\* the framework calls the operations of an activated module only
Activated == module_state # "deactivated"

(***************************************************************************)
(* off, cw_on                                                              *)
(***************************************************************************)
\* off_io without the stop command
off_io_no_stop(p) == <<Write("*WAI")>> \o p

\* what off puts on the bus while the output is active; p are the polls of
\* the output state
off_io(p) == <<Write("OUTP:STAT OFF"), Write("*WAI")>> \o p

off ==
    /\ Activated
    /\ Called("off", None)
    /\ IF module_state # "idle"
       THEN \E p \in Poll("OUTP:STAT?", 1, 0) :
               /\ bus' = off_io(p)
               /\ _device' = Execute(_device, off_io(p))
               /\ module_state' = "idle"
               /\ outcome' = "return"
               /\ UNCHANGED <<_max_power, _constraints, cached>>
       ELSE Return(<<>>)

\* cw_on_io without the switch to CW mode
cw_on_io_no_mode_switch(p) ==
    <<QueryMode(_device)>> \o <<Write(":OUTP:STAT ON"), Write("*WAI")>> \o p

\* what cw_on puts on the bus when the module is idle
cw_on_io(p) ==
    <<QueryMode(_device)>>
    \o (IF ~_in_cw_mode(_device)
        THEN _command_wait(Write(":FREQ:MODE CW"))
             \o _command_wait(WriteF(":FREQ", _cw_frequency))
             \o _command_wait(WriteF(":POW", _cw_power))
        ELSE <<>>)
    \o <<Write(":OUTP:STAT ON"), Write("*WAI")>> \o p

\* cw_on with the check of module_state left out
cw_on_unguarded ==
    /\ Activated
    /\ Called("cw_on", None)
    /\ \E p \in Poll(":OUTP:STAT?", 0, 1) :
          /\ bus' = cw_on_io(p)
          /\ _device' = Execute(_device, cw_on_io(p))
          /\ module_state' = "locked"
          /\ outcome' = "return"
          /\ UNCHANGED <<_max_power, _constraints, cached>>

cw_on ==
    /\ Activated
    /\ Called("cw_on", None)
    /\ IF module_state # "idle"
       THEN IF _in_cw_mode(_device)
            THEN Return(<<QueryMode(_device)>>)
            ELSE Raise("RuntimeError", <<QueryMode(_device)>>)
       ELSE \E p \in Poll(":OUTP:STAT?", 0, 1) :
               /\ bus' = cw_on_io(p)
               /\ _device' = Execute(_device, cw_on_io(p))
               /\ module_state' = "locked"
               /\ outcome' = "return"
               /\ UNCHANGED <<_max_power, _constraints, cached>>

(***************************************************************************)
(* The setters                                                             *)
(***************************************************************************)
\* cw_setpoint_io with the power written before the frequency
cw_setpoint_io_power_first(frequency, power) ==
    <<QueryMode(_device)>>
    \o (IF ~_in_cw_mode(_device) THEN _command_wait(Write(":FREQ:MODE CW")) ELSE <<>>)
    \o _command_wait(WriteF(":POW", power))
    \o _command_wait(WriteF(":FREQ", frequency))

\* what the cw_power and cw_frequency setters write: CW mode if the
\* instrument is not in it, the frequency, then the power
cw_setpoint_io(frequency, power) ==
    <<QueryMode(_device)>>
    \o (IF ~_in_cw_mode(_device) THEN _command_wait(Write(":FREQ:MODE CW")) ELSE <<>>)
    \o _command_wait(WriteF(":FREQ", frequency))
    \o _command_wait(WriteF(":POW", power))

\* the read-back of both settings from instrument d
cw_readback_io(d) == <<Query(":POW?", d.pow), Query(":FREQ?", d.freq)>>

cw_power(value) ==
    /\ Activated
    /\ Called("cw_power", <<value>>)
    /\ IF module_state # "idle" THEN Raise("RuntimeError", <<>>)
       ELSE IF ~power_in_range(value) THEN Raise("AssertionError", <<>>)
       ELSE LET io == cw_setpoint_io(_cw_frequency, value)
                d == Execute(_device, io)
            IN /\ bus' = io \o cw_readback_io(d)
               /\ _device' = d
               /\ _cw_power' = d.pow
               /\ _cw_frequency' = d.freq
               /\ outcome' = "return"
               /\ UNCHANGED <<module_state, _max_power, _constraints,
                              _scan_power, _scan_frequencies>>

cw_frequency(value) ==
    /\ Activated
    /\ Called("cw_frequency", <<value>>)
    /\ IF module_state # "idle" THEN Raise("RuntimeError", <<>>)
       ELSE IF ~frequency_in_range(Frequency(value)) THEN Raise("AssertionError", <<>>)
       ELSE LET io == cw_setpoint_io(value, _cw_power)
                d == Execute(_device, io)
            IN /\ bus' = io \o cw_readback_io(d)
               /\ _device' = d
               /\ _cw_power' = d.pow
               /\ _cw_frequency' = d.freq
               /\ outcome' = "return"
               /\ UNCHANGED <<module_state, _max_power, _constraints,
                              _scan_power, _scan_frequencies>>

\* step = (stop - start) / (points - 1)
SweepStep(freqs) == (freqs[2] - freqs[1]) \div (freqs[3] - 1)

\* _write_sweep that leaves the power of the instrument as it is
_write_sweep_without_power(d, freqs, power) ==
    LET start == freqs[1]
        stop == freqs[2]
        step == SweepStep(freqs)
    IN <<QueryMode(d)>>
       \o (IF _in_cw_mode(d) THEN _command_wait(Write(":FREQ:MODE SWEEP")) ELSE <<>>)
       \o << Write(":SWE:MODE STEP"), Write(":SWE:SPAC LIN"), Write("*WAI"),
             WriteF(":FREQ:START", start - step), WriteF(":FREQ:STOP", stop),
             WriteF(":SWE:STEP:LIN", step), Write("*WAI") >>
       \o _command_wait(Write("TRIG:FSW:SOUR EXT"))

\* _write_sweep on instrument d with the stored triple freqs and scan power
\* power: what it puts on the bus
_write_sweep(d, freqs, power) ==
    LET start == freqs[1]
        stop == freqs[2]
        step == SweepStep(freqs)
    IN <<QueryMode(d)>>
       \o (IF _in_cw_mode(d) THEN _command_wait(Write(":FREQ:MODE SWEEP")) ELSE <<>>)
       \o << Write(":SWE:MODE STEP"), Write(":SWE:SPAC LIN"), Write("*WAI"),
             WriteF(":FREQ:START", start - step), WriteF(":FREQ:STOP", stop),
             WriteF(":SWE:STEP:LIN", step), Write("*WAI"),
             WriteF(":POW", power), Write("*WAI") >>
       \o _command_wait(Write("TRIG:FSW:SOUR EXT"))

\* scan_power with the range assertion left out
scan_power_unchecked(value) ==
    /\ Activated
    /\ Called("scan_power", <<value>>)
    /\ IF module_state # "idle" THEN Raise("RuntimeError", <<>>)
       ELSE /\ _scan_power' = value
            /\ IF _scan_frequencies # None
               THEN LET io == _write_sweep(_device, _scan_frequencies, value) IN
                       bus' = io /\ _device' = Execute(_device, io)
               ELSE bus' = <<>> /\ UNCHANGED _device
            /\ outcome' = "return"
            /\ UNCHANGED <<module_state, _max_power, _constraints, _cw_power,
                           _cw_frequency, _scan_frequencies>>

scan_power(value) ==
    /\ Activated
    /\ Called("scan_power", <<value>>)
    /\ IF module_state # "idle" THEN Raise("RuntimeError", <<>>)
       ELSE IF ~power_in_range(value) THEN Raise("AssertionError", <<>>)
       ELSE /\ _scan_power' = value
            /\ IF _scan_frequencies # None
               THEN LET io == _write_sweep(_device, _scan_frequencies, value) IN
                       bus' = io /\ _device' = Execute(_device, io)
               ELSE bus' = <<>> /\ UNCHANGED _device
            /\ outcome' = "return"
            /\ UNCHANGED <<module_state, _max_power, _constraints, _cw_power,
                           _cw_frequency, _scan_frequencies>>

scan_frequencies(value) ==
    /\ Activated
    /\ Called("scan_frequencies", value)
    /\ IF module_state # "idle" THEN Raise("RuntimeError", <<>>)
       ELSE IF ~(/\ frequency_in_range(min(Floats(value)))
                 /\ frequency_in_range(max(Floats(value))))
            THEN Raise("AssertionError", <<>>)
       ELSE IF ~scan_size_in_range(len(value)) THEN Raise("AssertionError", <<>>)
       ELSE /\ _scan_frequencies' = value
            /\ LET io == _write_sweep(_device, value, _scan_power) IN
                  bus' = io /\ _device' = Execute(_device, io)
            /\ outcome' = "return"
            /\ UNCHANGED <<module_state, _max_power, _constraints, _cw_power,
                           _cw_frequency, _scan_power>>

\* scan_mode with the check of module_state left out
scan_mode_while_active(value) ==
    /\ Activated
    /\ Called("scan_mode", <<value>>)
    /\ IF value \notin SamplingOutputMode THEN Raise("AssertionError", <<>>)
       ELSE IF ~mode_supported(value) THEN Raise("AssertionError", <<>>)
       ELSE /\ _scan_frequencies' = None
            /\ bus' = <<>>
            /\ outcome' = "return"
            /\ UNCHANGED <<module_state, _max_power, _constraints, _cw_power,
                           _cw_frequency, _scan_power, _device>>

\* scan_mode that keeps the stored triple
scan_mode_keeps_triple(value) ==
    /\ Activated
    /\ Called("scan_mode", <<value>>)
    /\ IF module_state # "idle" THEN Raise("RuntimeError", <<>>)
       ELSE IF value \notin SamplingOutputMode THEN Raise("AssertionError", <<>>)
       ELSE IF ~mode_supported(value) THEN Raise("AssertionError", <<>>)
       ELSE Return(<<>>)

scan_mode(value) ==
    /\ Activated
    /\ Called("scan_mode", <<value>>)
    /\ IF module_state # "idle" THEN Raise("RuntimeError", <<>>)
       ELSE IF value \notin SamplingOutputMode THEN Raise("AssertionError", <<>>)
       ELSE IF ~mode_supported(value) THEN Raise("AssertionError", <<>>)
       ELSE /\ _scan_frequencies' = None
            /\ bus' = <<>>
            /\ outcome' = "return"
            /\ UNCHANGED <<module_state, _max_power, _constraints, _cw_power,
                           _cw_frequency, _scan_power, _device>>

trigger_edge(value) ==
    /\ Activated
    /\ Called("trigger_edge", <<value>>)
    /\ IF module_state # "idle" THEN Raise("RuntimeError", <<>>)
       ELSE IF value \notin TriggerEdge THEN Raise("AssertionError", <<>>)
       ELSE LET edge == IF value = "FALLING" THEN "NEG" ELSE "POS" IN
            LET io == _command_wait(Write(IF edge = "NEG" THEN ":TRIG1:SLOP NEG"
                                                           ELSE ":TRIG1:SLOP POS")) IN
               /\ bus' = io
               /\ _device' = Execute(_device, io)
               /\ outcome' = "return"
               /\ UNCHANGED <<module_state, _max_power, _constraints, cached>>

(***************************************************************************)
(* start_scan, reset_scan                                                  *)
(***************************************************************************)
\* start_scan_io without the output-on command
start_scan_io_no_start(p) ==
    <<QueryMode(_device)>>
    \o (IF _in_cw_mode(_device) THEN _command_wait(Write(":FREQ:MODE SWEEP")) ELSE <<>>)
    \o p

\* what start_scan puts on the bus when the module is idle
start_scan_io(p) ==
    <<QueryMode(_device)>>
    \o (IF _in_cw_mode(_device) THEN _command_wait(Write(":FREQ:MODE SWEEP")) ELSE <<>>)
    \o <<Write(":OUTP:STAT ON")>> \o p

\* start_scan with the assertion on the stored triple left out
start_scan_unasserted ==
    /\ Activated
    /\ Called("start_scan", None)
    /\ IF module_state # "idle"
       THEN IF ~_in_cw_mode_attribute
            THEN Return(<<>>)
            ELSE Raise("RuntimeError", <<>>)
       ELSE \E p \in Poll(":OUTP:STAT?", 0, 1) :
               /\ bus' = start_scan_io(p)
               /\ _device' = Execute(_device, start_scan_io(p))
               /\ module_state' = "locked"
               /\ outcome' = "return"
               /\ UNCHANGED <<_max_power, _constraints, cached>>

start_scan ==
    /\ Activated
    /\ Called("start_scan", None)
    /\ IF module_state # "idle"
       THEN IF ~_in_cw_mode_attribute
            THEN Return(<<>>)
            ELSE Raise("RuntimeError", <<>>)
       ELSE IF _scan_frequencies = None THEN Raise("AssertionError", <<>>)
       ELSE \E p \in Poll(":OUTP:STAT?", 0, 1) :
               /\ bus' = start_scan_io(p)
               /\ _device' = Execute(_device, start_scan_io(p))
               /\ module_state' = "locked"
               /\ outcome' = "return"
               /\ UNCHANGED <<_max_power, _constraints, cached>>

reset_scan ==
    /\ Activated
    /\ Called("reset_scan", None)
    /\ IF module_state = "idle" THEN Return(<<>>)
       ELSE IF _in_cw_mode_attribute THEN Raise("RuntimeError", <<>>)
       ELSE Return(_command_wait(Write(":ABOR:SWE")))

(***************************************************************************)
(* is_scanning (read-only property)                                        *)
(***************************************************************************)
is_scanning == (module_state # "idle") /\ ~_in_cw_mode(_device)

Next ==
    \/ on_activate /\ Sequential
    \/ on_deactivate /\ Sequential
    \/ off /\ Sequential
    \/ cw_on /\ Sequential
    \/ start_scan /\ Sequential
    \/ reset_scan /\ Sequential
    \/ \E value \in PowerInputs : cw_power(value) /\ Sequential
    \/ \E value \in FrequencyInputs : cw_frequency(value) /\ Sequential
    \/ \E value \in PowerInputs : scan_power(value) /\ Sequential
    \/ \E value \in ScanInputs : scan_frequencies(value) /\ Sequential
    \/ \E value \in ScanModeInputs : scan_mode(value) /\ Sequential
    \/ \E value \in TriggerEdgeInputs : trigger_edge(value) /\ Sequential

Spec == Init /\ [][Next]_vars

(***************************************************************************)
(* Several callers.  Every public operation is                             *)
(*     with self._thread_lock: <body>                                      *)
(* A caller waits for the lock, runs the body, and leaves the lock when    *)
(* the body returns or raises.                                             *)
(***************************************************************************)
\* the triple the callers assign to scan_frequencies
ThreadScanInputs == {<<1000000, 2000000, MaxScanSize>>}
OutputCalls == {"off", "cw_on", "start_scan"}

\* Mutex: the lock can be taken when nobody holds it
Free(lock) == lock = 0

At(t, position) == pc[t] = position
Goto(t, position) == pc' = [pc EXCEPT ![t] = position]
Inside(t) == pc[t] \in {"in", "polling", "done"}

\* a caller calls a public operation and arrives at its with statement
request(t) ==
    /\ Activated
    /\ At(t, "out")
    /\ Goto(t, "waiting")
    /\ UNCHANGED <<module_state, _max_power, _constraints, cached, _device, call,
                   outcome, bus, offCwOff, _thread_lock, settling, responsive>>

\* a with statement that enters without the lock being free
acquire_unguarded(t) ==
    /\ At(t, "waiting")
    /\ _thread_lock' = t
    /\ Goto(t, "in")
    /\ UNCHANGED <<module_state, _max_power, _constraints, cached, _device, call,
                   outcome, bus, offCwOff, settling, responsive>>

\* with self._thread_lock: enter
acquire(t) ==
    /\ At(t, "waiting")
    /\ Free(_thread_lock)
    /\ _thread_lock' = t
    /\ Goto(t, "in")
    /\ UNCHANGED <<module_state, _max_power, _constraints, cached, _device, call,
                   outcome, bus, offCwOff, settling, responsive>>

\* leaving the with statement without giving the lock back
release_keeps_lock(t) ==
    /\ At(t, "done")
    /\ Goto(t, "out")
    /\ UNCHANGED <<module_state, _max_power, _constraints, cached, _device, call,
                   outcome, bus, offCwOff, _thread_lock, settling, responsive>>

\* with self._thread_lock: exit, on return and on an exception
release(t) ==
    /\ At(t, "done")
    /\ _thread_lock' = 0
    /\ Goto(t, "out")
    /\ UNCHANGED <<module_state, _max_power, _constraints, cached, _device, call,
                   outcome, bus, offCwOff, settling, responsive>>

\* a body that runs to its end without waiting for the output
run(t, body) ==
    /\ At(t, "in")
    /\ body
    /\ Goto(t, "done")
    /\ UNCHANGED <<_thread_lock, settling, responsive>>

\* the branch of off, cw_on and start_scan that switches the output
SwitchesOutput(op) ==
    CASE op = "off" -> module_state # "idle"
      [] op = "cw_on" -> module_state = "idle"
      [] op = "start_scan" -> module_state = "idle" /\ _scan_frequencies # None
\* what it sends before its first poll
output_io(op) ==
    CASE op = "off" -> off_io(<<>>)
      [] op = "cw_on" -> cw_on_io(<<>>)
      [] op = "start_scan" -> start_scan_io(<<>>)
\* the state it waits for, and the query it polls with
wanted(op) == IF op = "off" THEN 0 ELSE 1
poll_query(op) == IF op = "off" THEN "OUTP:STAT?" ELSE ":OUTP:STAT?"

\* off, cw_on, start_scan up to the while loop: the instrument is told to
\* switch its output and has not done it yet
begin(t, op) ==
    /\ At(t, "in")
    /\ Activated
    /\ SwitchesOutput(op)
    /\ Called(op, None)
    /\ LET io == output_io(op)
           d == Execute(_device, io)
       IN /\ bus' = io
          /\ _device' = [d EXCEPT !.outp = _device.outp]
          /\ settling' = <<d.outp>>
    /\ outcome' = "polling"
    /\ Goto(t, "polling")
    /\ UNCHANGED <<module_state, _max_power, _constraints, cached, _thread_lock,
                   responsive>>

\* a while loop that is left whatever the instrument answers
poll_unconfirmed(t) ==
    /\ At(t, "polling")
    /\ bus' = Append(bus, Query(poll_query(call.op), _device.outp))
    /\ module_state' = IF call.op = "off" THEN "idle" ELSE "locked"
    /\ outcome' = "return"
    /\ Goto(t, "done")
    /\ UNCHANGED <<_max_power, _constraints, cached, _device, call, offCwOff,
                   _thread_lock, settling, responsive>>

\* one round of the while loop: query the output state; on the wanted
\* answer leave the loop and lock or unlock module_state, else sleep
poll(t) ==
    /\ At(t, "polling")
    /\ IF _device.outp = wanted(call.op)
       THEN /\ bus' = Append(bus, Query(poll_query(call.op), _device.outp))
            /\ module_state' = IF call.op = "off" THEN "idle" ELSE "locked"
            /\ outcome' = "return"
            /\ Goto(t, "done")
            /\ UNCHANGED <<_max_power, _constraints, cached, _device, call,
                           offCwOff, _thread_lock, settling, responsive>>
       ELSE UNCHANGED vars

\* the instrument takes the output state it was told to take
settle ==
    /\ responsive
    /\ settling # None
    /\ _device' = [_device EXCEPT !.outp = settling[1]]
    /\ settling' = None
    /\ UNCHANGED <<module_state, _max_power, _constraints, cached, call, outcome,
                   bus, offCwOff, _thread_lock, pc, responsive>>

\* the bodies that end without polling the output state
off_idle == off /\ ~SwitchesOutput("off")
cw_on_locked == cw_on /\ ~SwitchesOutput("cw_on")
start_scan_refused == start_scan /\ ~SwitchesOutput("start_scan")

InitThreads == Constructed /\ NoCallers /\ responsive \in BOOLEAN

NextThreads ==
    \/ on_activate /\ Sequential
    \/ \E t \in Threads : request(t)
    \/ \E t \in Threads : acquire(t)
    \/ \E t \in Threads : begin(t, "off")
    \/ \E t \in Threads : begin(t, "cw_on")
    \/ \E t \in Threads : begin(t, "start_scan")
    \/ \E t \in Threads : poll(t)
    \/ \E t \in Threads : run(t, off_idle)
    \/ \E t \in Threads : run(t, cw_on_locked)
    \/ \E t \in Threads : run(t, start_scan_refused)
    \/ \E t \in Threads : run(t, reset_scan)
    \/ \E t \in Threads : \E value \in ThreadScanInputs : run(t, scan_frequencies(value))
    \/ \E t \in Threads : release(t)
    \/ settle

\* a caller inside a body goes on; a responsive instrument switches
Proceeds(t) ==
    \/ \E op \in OutputCalls : begin(t, op)
    \/ poll(t)
    \/ run(t, off_idle) \/ run(t, cw_on_locked) \/ run(t, start_scan_refused)
    \/ run(t, reset_scan)
    \/ \E value \in ThreadScanInputs : run(t, scan_frequencies(value))
    \/ release(t)
Fairness ==
    /\ \A t \in Threads : WF_vars(Proceeds(t))
    /\ WF_vars(settle)

SpecThreads == InitThreads /\ [][NextThreads]_vars /\ Fairness

(***************************************************************************)
(* Properties                                                              *)
(***************************************************************************)
Setters == {"cw_power", "cw_frequency", "scan_power", "scan_frequencies",
            "scan_mode", "trigger_edge"}
cw_setpoint == <<_cw_frequency, _cw_power>>

\* C1: a setter (cw_power, cw_frequency, scan_power, scan_frequencies,
\* scan_mode, trigger_edge) called while the module is locked ends with an
\* error, puts nothing on the bus and leaves the cached CW setpoint, scan
\* power and scan frequencies as they were; and no step taken while the
\* module is locked changes a cached setpoint.
C1_SettersFailWhileLocked ==
    [][ /\ (module_state = "locked" /\ call'.op \in Setters)
            => (outcome' # "return" /\ bus' = <<>> /\ UNCHANGED cached)
        /\ (cached' # cached) => module_state # "locked" ]_vars

C1_Witness ==
    /\ module_state = "locked"
    /\ call.op = "cw_power"
    /\ call.arg = <<MinPower>>
    /\ outcome = "RuntimeError"

\* the value of a cw_power, cw_frequency or scan_power call lies outside
\* the limits of the constraints
OutOfBounds(c) ==
    \/ /\ c.op \in {"cw_power", "scan_power"}
       /\ \/ c.arg[1] < _constraints.power_limits[1]
          \/ c.arg[1] > _constraints.power_limits[2]
    \/ /\ c.op = "cw_frequency"
       /\ \/ c.arg[1] < _constraints.frequency_limits[1]
          \/ c.arg[1] > _constraints.frequency_limits[2]

\* C2: setting cw_power, cw_frequency or scan_power to a value outside the
\* power or frequency limits fails, whether the module is idle or locked,
\* puts nothing on the bus and leaves every cached setpoint as it was.
C2_OutOfBoundsFails ==
    [][ (call'.op \in {"cw_power", "cw_frequency", "scan_power"} /\ OutOfBounds(call'))
            => (outcome' # "return" /\ bus' = <<>> /\ UNCHANGED cached) ]_vars

C2_Witness ==
    /\ module_state = "idle"
    /\ _device.model = "SMB100A"
    /\ call.op = "cw_frequency"
    /\ call.arg = <<4000000>>
    /\ outcome = "AssertionError"

\* start or stop of the triple lies outside the frequency limits, or its
\* point count outside the scan size limits
TripleOutOfBounds(value) ==
    \/ \E i \in {1, 2} : \/ value[i] < _constraints.frequency_limits[1]
                         \/ value[i] > _constraints.frequency_limits[2]
    \/ value[3] < _constraints.scan_size_limits[1]
    \/ value[3] > _constraints.scan_size_limits[2]

\* C3: setting scan_frequencies to (start, stop, count) fails, puts nothing
\* on the bus and leaves the stored triple as it was whenever start or stop
\* lies outside the frequency limits or count outside the scan size limits.
C3_TripleOutOfBoundsFails ==
    [][ (call'.op = "scan_frequencies" /\ TripleOutOfBounds(call'.arg))
            => (outcome' # "return" /\ bus' = <<>> /\ UNCHANGED _scan_frequencies) ]_vars

\* C4: while idle, setting scan_frequencies to a triple with start and stop
\* inside the frequency limits and count inside the scan size limits
\* returns, stores the triple and programs the instrument with
\* step = (stop - start) / (count - 1), sweep start = start - step and
\* sweep stop = stop.
C4_TripleInBoundsProgrammed ==
    [][ (/\ module_state = "idle"
         /\ call'.op = "scan_frequencies"
         /\ ~TripleOutOfBounds(call'.arg))
            => LET start == call'.arg[1]
                   stop == call'.arg[2]
                   step == (stop - start) \div (call'.arg[3] - 1)
               IN /\ outcome' = "return"
                  /\ _scan_frequencies' = call'.arg
                  /\ _device'.swe_step = step
                  /\ _device'.swe_start = start - step
                  /\ _device'.swe_stop = stop ]_vars

\* C5: reset_scan does nothing when the module is idle, fails when it is
\* locked with the instrument in CW mode, and when it is locked with the
\* instrument in sweep mode it sends :ABOR:SWE, returns and leaves the
\* module locked.
C5_ResetScan ==
    [][ (call'.op = "reset_scan")
            => /\ (module_state = "idle")
                    => (outcome' = "return" /\ bus' = <<>>
                        /\ UNCHANGED <<module_state, cached, _device>>)
               /\ (module_state = "locked" /\ _in_cw_mode(_device))
                    => outcome' # "return"
               /\ (module_state = "locked" /\ ~_in_cw_mode(_device))
                    => (outcome' = "return" /\ Sent(bus', ":ABOR:SWE")
                        /\ module_state' = "locked") ]_vars

\* C6: start_scan raises RuntimeError exactly when the module is locked
\* with the instrument in CW mode; called while a scan is active (locked,
\* sweep mode) it returns, writes nothing and changes nothing.
C6_StartScanInvalidState ==
    [][ (call'.op = "start_scan")
            => /\ (outcome' = "RuntimeError")
                    <=> (module_state = "locked" /\ _in_cw_mode(_device))
               /\ (module_state = "locked" /\ ~_in_cw_mode(_device))
                    => (outcome' = "return" /\ Writes(bus') = <<>>
                        /\ UNCHANGED <<module_state, cached, _device>>) ]_vars

\* C7: start_scan called while no scan frequency triple is stored fails,
\* does not send the output-on command and does not change module_state
\* or the instrument.
C7_StartScanNeedsTriple ==
    [][ (call'.op = "start_scan" /\ _scan_frequencies = None)
            => (outcome' # "return" /\ ~Sent(bus', ":OUTP:STAT ON")
                /\ UNCHANGED <<module_state, _device>>) ]_vars

\* start_scan failed on a triple that had been stored (the sweep was
\* written to the instrument) and was cleared again
C7_Witness ==
    /\ call.op = "start_scan"
    /\ outcome = "AssertionError"
    /\ _scan_frequencies = None
    /\ module_state = "idle"
    /\ _device.trig_src = "EXT"

\* C8: cw_on fails without changing anything when the module is locked
\* with the instrument in sweep mode; writes nothing and changes nothing
\* when the module is locked with the instrument in CW mode; and from idle
\* ends with the instrument in CW mode, its output on and the module
\* locked.
C8_CwOn ==
    [][ (call'.op = "cw_on")
            => /\ (module_state = "locked" /\ ~_in_cw_mode(_device))
                    => (outcome' = "RuntimeError" /\ Writes(bus') = <<>>
                        /\ UNCHANGED <<module_state, cached, _device>>)
               /\ (module_state = "locked" /\ _in_cw_mode(_device))
                    => (outcome' = "return" /\ Writes(bus') = <<>>
                        /\ UNCHANGED <<module_state, cached, _device>>)
               /\ (module_state = "idle")
                    => (outcome' = "return" /\ _in_cw_mode(_device')
                        /\ _device'.outp = 1 /\ module_state' = "locked") ]_vars

\* cw_on started the output from idle with the instrument in sweep mode
C8_Witness ==
    /\ call.op = "cw_on"
    /\ outcome = "return"
    /\ module_state = "locked"
    /\ Sent(bus, ":FREQ:MODE CW")
    /\ Sent(bus, ":OUTP:STAT ON")

\* C9: after the calls off, cw_on, off in a row the module is idle, the
\* output of the instrument is off and the cached CW setpoint is the one
\* from before the first of the three calls.
C9_OffCwOnOff ==
    (offCwOff.stage = 3)
        => (module_state = "idle" /\ _device.outp = 0 /\ cw_setpoint = offCwOff.start)

\* the sequence ran from a state with output active and a CW setpoint
\* other than the one of activation
C9_Witness ==
    /\ offCwOff.stage = 3
    /\ Sent(bus, "OUTP:STAT OFF")
    /\ cw_setpoint # <<ActivateCwFrequency, MinPower>>

\* C10: a scan_mode call returns only when the module is idle and the mode
\* supported, and then always; it clears the stored triple and leaves scan
\* power and CW setpoint as they were.  Once the triple is cleared,
\* start_scan fails, and only a scan_frequencies call that returns stores a
\* triple again.
C10_ScanModeClearsTriple ==
    [][ /\ (call'.op = "scan_mode")
            => /\ (outcome' = "return")
                    <=> (module_state = "idle" /\ mode_supported(call'.arg[1]))
               /\ (outcome' = "return")
                    => (_scan_frequencies' = None
                        /\ UNCHANGED <<_scan_power, _cw_power, _cw_frequency>>)
        /\ (call'.op = "start_scan" /\ _scan_frequencies = None)
            => (outcome' # "return" /\ module_state' = module_state)
        /\ (_scan_frequencies = None /\ _scan_frequencies' # None)
            => (call'.op = "scan_frequencies" /\ outcome' = "return") ]_vars

\* scan_mode returned after a sweep had been written to the instrument
C10_Witness ==
    /\ call.op = "scan_mode"
    /\ call.arg = <<"EQUIDISTANT_SWEEP">>
    /\ outcome = "return"
    /\ _scan_frequencies = None
    /\ _device.trig_src = "EXT"

\* C11: with several callers at most one is inside the body of a public
\* operation, and it holds the lock; every step that puts something on the
\* bus or changes the cached state or module_state is a step of that
\* caller, and no other caller enters or moves meanwhile.  (on_activate is
\* the framework's, before any caller.)
C11_OneCallerInside ==
    [][ /\ \A t, u \in Threads : (Inside(t)' /\ Inside(u)') => t = u
        /\ \A t \in Threads : Inside(t)' => _thread_lock' = t
        /\ (call'.op # "on_activate"
              /\ (bus' # bus \/ cached' # cached \/ module_state' # module_state
                    \/ call' # call))
              => \E t \in Threads :
                    /\ Inside(t) /\ Inside(t)'
                    /\ _thread_lock = t /\ _thread_lock' = t
                    /\ \A u \in Threads \ {t} : ~Inside(u) /\ pc'[u] = pc[u] ]_vars

\* one caller polls the output state inside cw_on while the other waits
\* for the lock
C11_Witness ==
    \E t, u \in Threads :
        /\ pc[t] = "polling" /\ call.op = "cw_on"
        /\ _thread_lock = t
        /\ pc[u] = "waiting"

(***************************************************************************)
(* The bus protocol of one call.                                           *)
(***************************************************************************)
ConfigurationCommands ==
    { ":FREQ:MODE CW", ":FREQ:MODE SWEEP", ":FREQ", ":POW", ":SWE:MODE STEP",
      ":SWE:SPAC LIN", ":FREQ:START", ":FREQ:STOP", ":SWE:STEP:LIN",
      "TRIG:FSW:SOUR EXT", ":TRIG1:SLOP POS", ":TRIG1:SLOP NEG" }
SweepCommands ==
    { ":SWE:MODE STEP", ":SWE:SPAC LIN", ":FREQ:START", ":FREQ:STOP",
      ":SWE:STEP:LIN" }
IsWrite(io, i) == io[i].kind = "write"
IsOpcComplete(e) == e.kind = "query" /\ e.cmd = "*OPC?" /\ e.arg = <<1>>
\* the write at position i is followed by an *OPC? poll that answered 1, with
\* no other command than *WAI between them
Completed(io, i) ==
    \E j \in DOMAIN io :
        /\ j > i
        /\ IsOpcComplete(io[j])
        /\ \A k \in (i + 1)..(j - 1) : IsWrite(io, k) => io[k].cmd = "*WAI"
\* the write at position i is directly followed by *WAI and the *OPC? poll
Confirmed(io, i) ==
    /\ i + 2 <= Len(io)
    /\ IsWrite(io, i + 1) /\ io[i + 1].cmd = "*WAI"
    /\ IsOpcComplete(io[i + 2])
\* the value the instrument holds when it is sent x
Programmed(x) == Quantize(x, DevGrid)

ConfirmedOutput(op) ==
    /\ call.op = op /\ call'.op = op
    /\ _device.outp = wanted(op)
    /\ bus' = Append(bus, Query(poll_query(op), wanted(op)))
    /\ Sent(bus, IF op = "off" THEN "OUTP:STAT OFF" ELSE ":OUTP:STAT ON")
    /\ outcome' = "return"
C13_LockFollowsConfirmation ==
    [][ /\ (module_state = "locked" /\ module_state' # "locked")
              => (module_state' = "idle" /\ ConfirmedOutput("off"))
        /\ (module_state # "locked" /\ module_state' = "locked")
              => (module_state = "idle"
                  /\ (ConfirmedOutput("cw_on") \/ ConfirmedOutput("start_scan")))
        /\ \A t \in Threads :
              (pc[t] = "polling" /\ pc'[t] # "polling")
                  => /\ ConfirmedOutput(call.op)
                     /\ module_state' = IF call.op = "off" THEN "idle" ELSE "locked"
                     /\ module_state' # module_state ]_vars

\* off has returned after the instrument answered that the output is off
C13_Witness ==
    /\ call.op = "off"
    /\ outcome = "return"
    /\ module_state = "idle"
    /\ Sent(bus, "OUTP:STAT OFF")
    /\ bus[Len(bus)] = Query("OUTP:STAT?", 0)
    /\ \E t \in Threads : pc[t] = "done"

\* C14: after a successful assignment of cw_power or cw_frequency the
\* instrument is in CW mode, the frequency command went out before the power
\* command, and the cached CW frequency and power are the values the
\* instrument answered on read-back, which are the values it holds.
C14_CwSetpointReadBack ==
    (call.op \in {"cw_power", "cw_frequency"} /\ outcome = "return")
        => /\ _in_cw_mode(_device)
           /\ \E i, j \in DOMAIN bus :
                /\ i < j
                /\ IsWrite(bus, i) /\ bus[i].cmd = ":FREQ"
                /\ IsWrite(bus, j) /\ bus[j].cmd = ":POW"
                /\ \A k \in DOMAIN bus :
                      (IsWrite(bus, k) /\ bus[k].cmd = ":POW") => k = j
                /\ \A k \in DOMAIN bus :
                      (IsWrite(bus, k) /\ bus[k].cmd = ":FREQ") => k = i
           /\ \E i \in DOMAIN bus :
                bus[i].kind = "query" /\ bus[i].cmd = ":POW?"
                    /\ bus[i].arg = <<_cw_power>>
           /\ \E i \in DOMAIN bus :
                bus[i].kind = "query" /\ bus[i].cmd = ":FREQ?"
                    /\ bus[i].arg = <<_cw_frequency>>
           /\ _cw_power = _device.pow
           /\ _cw_frequency = _device.freq

\* cw_power succeeded and the instrument rounded the requested power
C14_Witness ==
    /\ call.op = "cw_power"
    /\ outcome = "return"
    /\ _cw_power # call.arg[1]
    /\ _cw_power = _device.pow

\* C15: a successful assignment of scan_power stores the value; with a
\* triple stored the sweep is written again: the instrument ends in sweep
\* mode, holding the new scan power and the start, stop and step derived
\* from the triple; with no triple stored nothing is sent.
C15_ScanPower ==
    (call.op = "scan_power" /\ outcome = "return")
        => /\ _scan_power = call.arg[1]
           /\ IF _scan_frequencies # None
              THEN LET start == _scan_frequencies[1]
                       stop == _scan_frequencies[2]
                       points == _scan_frequencies[3]
                       step == (stop - start) \div (points - 1)
                   IN /\ ~_in_cw_mode(_device)
                      /\ _device.pow = Programmed(_scan_power)
                      /\ Sent(bus, ":POW")
                      /\ \A i \in DOMAIN bus :
                            (IsWrite(bus, i) /\ bus[i].cmd = ":POW")
                                => bus[i].arg = <<_scan_power>>
                      /\ _device.swe_start = start - step
                      /\ _device.swe_stop = stop
                      /\ _device.swe_step = step
              ELSE bus = <<>>

\* scan_power succeeded with a triple stored and the instrument in CW mode
C15_Witness ==
    /\ call.op = "scan_power"
    /\ outcome = "return"
    /\ _scan_frequencies # None
    /\ Sent(bus, ":FREQ:MODE SWEEP")
    /\ _device.pow = Programmed(_scan_power)

\* C16: with an instrument that takes the output state it is told to
\* take, every caller inside a public operation eventually is out of it and
\* does not hold the lock; with an instrument that never takes it, a caller
\* that polls the output state polls forever and keeps the lock, and every
\* caller waiting for the lock keeps waiting.
C16_ReturnsIffConfirmed ==
    /\ \A t \in Threads :
          (responsive /\ Inside(t)) ~> (pc[t] = "out" /\ _thread_lock # t)
    /\ [][ \A t \in Threads :
              (~responsive /\ pc[t] = "polling")
                  => /\ pc'[t] = "polling"
                     /\ _thread_lock' = t
                     /\ outcome' = "polling"
                     /\ \A u \in Threads :
                           pc[u] = "waiting" => pc'[u] = "waiting" ]_vars

\* start_scan polls an instrument that never switches its output on, and
\* another caller waits for the lock
C16_Witness ==
    \E t, u \in Threads :
        /\ ~responsive
        /\ pc[t] = "polling" /\ call.op = "start_scan"
        /\ _thread_lock = t
        /\ _device.outp = 0
        /\ pc[u] = "waiting"

\* C17: after every operation on the activated module the lock flag is set
\* exactly when the output of the instrument is on; off called with the flag
\* clear sends nothing.
C17_LockedIffOutputOn ==
    [][ /\ Activated' => ((module_state' = "locked") <=> (_device'.outp = 1))
        /\ (call'.op = "off" /\ module_state # "locked")
              => (bus' = <<>> /\ UNCHANGED <<module_state, _device>>) ]_vars

\* off was called with the flag clear, after a sweep had been configured
C17_Witness ==
    /\ call.op = "off"
    /\ outcome = "return"
    /\ module_state = "idle"
    /\ bus = <<>>
    /\ _device.outp = 0
    /\ ~_in_cw_mode(_device)

\* C18: while the lock flag is set no frequency mode command is sent, so
\* the mode of the instrument is the same from the start of the output
\* until off has completed, and is_scanning is the same as long as the flag
\* stays set; is_scanning is false whenever the module is idle.
C18_ModeFixedWhileLocked ==
    [][ /\ module_state = "locked"
            => /\ ~Sent(bus', ":FREQ:MODE CW")
               /\ ~Sent(bus', ":FREQ:MODE SWEEP")
               /\ _device'.freq_mode = _device.freq_mode
               /\ module_state' = "locked" => (is_scanning' <=> is_scanning)
        /\ module_state' = "idle" => ~is_scanning' ]_vars

\* cw_on was refused while the output ran in sweep mode
C18_Witness ==
    /\ call.op = "cw_on"
    /\ outcome = "RuntimeError"
    /\ module_state = "locked"
    /\ is_scanning

\* C19: whenever cw_on returns after starting the output from idle, the
\* instrument holds the cached CW frequency and CW power.
C19_CwOnOutputsSetpoint ==
    (call.op = "cw_on" /\ outcome = "return" /\ Sent(bus, ":OUTP:STAT ON"))
        => /\ _device.freq = Programmed(_cw_frequency)
           /\ _device.pow = Programmed(_cw_power)

\* C20: whenever start_scan returns after starting the output from idle,
\* the instrument is in sweep mode and holds the cached scan power.
C20_StartScanOutputsScanPower ==
    (call.op = "start_scan" /\ outcome = "return" /\ Sent(bus, ":OUTP:STAT ON"))
        => /\ ~_in_cw_mode(_device)
           /\ _device.pow = Programmed(_scan_power)

====
